---- MODULE Spec2Model ----
(***************************************************************************)
(* Model of radar-database.py: download_files, bounded_download,           *)
(* download_file and AsyncDownloadProgress running on one asyncio event    *)
(* loop.  The loop is cooperative: the variable `running` names the        *)
(* coroutine that currently owns the loop, and a coroutine gives the loop  *)
(* up only at an await that really suspends (semaphore wait, network and   *)
(* file I/O, gather).                                                      *)
(***************************************************************************)
EXTENDS Integers, Sequences, FiniteSets, TLC

\* ---- bounds of the model ----
MaxLinks == 3
MaxCap == 2
MaxNeg == 1

\* ---- inputs ----
\* URLs as their '/'-separated pieces.
URLs == { <<"host", "a", "x">>, <<"host", "b", "y">> }

SeqsUpTo(S, n) == UNION { [1..k -> S] : k \in 0..n }

\* The two URLs are interchangeable, so the first link is fixed: exchanging
\* the URLs maps every batch onto one of these.
FirstURL == << "host", "a", "x" >>

LinkLists == { l \in SeqsUpTo(URLs, MaxLinks) : Len(l) > 0 => l[1] = FirstURL }

Caps == (0 - MaxNeg)..MaxCap

\* ---- event loop ----
Idle == 0
Coord == 0 - 1
Free == 0

\* ---- values ----
None == "None"
Pending == "pending"
Raised == "raised"
NoErr == "none"

ExceptionKinds == {"ClientConnectionError", "ClientResponseError",
                   "ClientPayloadError", "OSError"}

VARIABLES
    links,           \* argument of download_files
    max_concurrent,  \* argument of download_files
    running,         \* owner of the event loop: Coord, a task index or Idle
    cpc,             \* position of download_files
    cerr,            \* exception that left download_files, or NoErr
    dirMade,         \* os.makedirs has created the output directory
    trackerMade,     \* AsyncDownloadProgress has been constructed
    total,           \* progress_bar.total
    completed,       \* AsyncDownloadProgress.completed
    bar_n,           \* progress_bar.n
    lock,            \* AsyncDownloadProgress.lock: Free or the holding task
    updatesFinished, \* number of update() calls that have returned
    closeCalls,      \* number of calls of AsyncDownloadProgress.close
    sem,             \* value of the semaphore
    launched,        \* tasks created by asyncio.gather
    tpc,             \* position of each bounded_download task
    fetches,         \* number of session.get calls of each task
    err,             \* exception raised inside each task, or NoErr
    result,          \* what each task returned
    touched,         \* file names opened with mode 'wb' in the output directory
    wrote,           \* tasks whose file.write has completed
    opened,          \* tasks whose aiofiles.open has succeeded
    outOfOrder,      \* a task has finished before one gather lists ahead of it
    results,         \* value of asyncio.gather
    returned         \* value returned by download_files

vars == << links, max_concurrent, running, cpc, cerr, dirMade, trackerMade,
           total, completed, bar_n, lock, updatesFinished, closeCalls, sem,
           launched, tpc, fetches, err, result, touched, wrote, opened,
           outOfOrder, results, returned >>

coordVars == << cpc, cerr, dirMade, results, returned, launched, outOfOrder >>
trackerVars == << trackerMade, total, completed, bar_n, lock,
                  updatesFinished, closeCalls >>
inputVars == << links, max_concurrent >>
sinkVars == << touched, wrote, opened >>

Tasks == DOMAIN links

\* ---- pure helpers ----
\* url.split('/')[-1]
Filename(url) == url[Len(url)]

\* len(links), the total handed to tqdm
TrackerTotal(ls) == Len(ls)

\* self.completed += 1
TrackerIncrementLost(c) == c
TrackerIncrementTwice(c) == c + 2
TrackerIncrement(c) == c + 1

\* asyncio.Semaphore.locked(): no permit is left
SemLockedNever(v) == FALSE
SemLockedOffByOne(v) == v <= 1
SemLocked(v) == v <= 0

\* except Exception: every fault of the fetch and of the write is caught
CaughtClientErrorOnly(e) == e # "OSError"
Caught(e) == e \in ExceptionKinds

\* [bounded_download(link) for link in links]: one task per link
GatherTasksDropLast(ls) == 1..(Len(ls) - 1)
GatherTasksDedup(ls) ==
    { i \in 1..Len(ls) : \A j \in 1..(i - 1) : ls[j] # ls[i] }
GatherTasks(ls) == 1..Len(ls)

\* asyncio.gather resumes its awaiter when every child is done, or as soon
\* as one child is done with an exception
GatherReadyFirst(l, t, r) == \E i \in l : t[i] = "done"
GatherReadyNeedsOne(l, t, r) == l # {} /\ \A i \in l : t[i] = "done"
GatherReady(l, t, r) ==
    \/ \A i \in l : t[i] = "done"
    \/ \E i \in l : t[i] = "done" /\ r[i] = Raised

\* the value of gather lists the results in the order of its arguments
GatherResultsReversed(l, r) ==
    [i \in 1..Cardinality(l) |-> r[Cardinality(l) + 1 - i]]
GatherResults(l, r) == [i \in 1..Cardinality(l) |-> r[i]]

\* Semaphore.release() on leaving 'async with sem', whatever the task returns
SemReleaseValueOnSuccess(v, r) == IF r = None THEN v ELSE v + 1
SemReleaseValue(v, r) == v + 1

\* no await between the increment and the release of the lock: the task
\* that updates keeps the event loop
UpdateYields(i) == Idle
UpdateKeepsLoop(i) == i

\* [r for r in results if r is not None]
IsNotNone(r) == r # None
SuccessfulDownloads(rs) == SelectSeq(rs, IsNotNone)

\* positions of a task inside download_file
InDownloadFile == {"get", "get_wait", "status", "open", "open_wait", "read",
                   "read_wait", "write", "write_wait", "close", "close_wait",
                   "upd_lock", "lock_wait", "upd_inc", "upd_unlock", "ret",
                   "handler"}

\* positions of a task inside 'async with sem'
InSemBlock == InDownloadFile \cup {"sem_exit"}

InFlight == { i \in Tasks : tpc[i] \in InDownloadFile }

\* ---- initial state: download_files has just been called ----
Init ==
    /\ links \in LinkLists
    /\ max_concurrent \in Caps
    /\ running = Coord
    /\ cpc = "makedirs"
    /\ cerr = NoErr
    /\ dirMade = FALSE
    /\ trackerMade = FALSE
    /\ total = 0
    /\ completed = 0
    /\ bar_n = 0
    /\ lock = Free
    /\ updatesFinished = 0
    /\ closeCalls = 0
    /\ sem = 0
    /\ launched = {}
    /\ tpc = [i \in DOMAIN links |-> "new"]
    /\ fetches = [i \in DOMAIN links |-> 0]
    /\ err = [i \in DOMAIN links |-> NoErr]
    /\ result = [i \in DOMAIN links |-> Pending]
    /\ touched = {}
    /\ wrote = {}
    /\ opened = {}
    /\ outOfOrder = FALSE
    /\ results = << >>
    /\ returned = << >>

\* ---- download_files ----
\* os.makedirs(output_dir, exist_ok=True)
Makedirs ==
    /\ cpc = "makedirs" /\ running = Coord
    /\ \E ok \in BOOLEAN :
         IF ok
         THEN /\ dirMade' = TRUE
              /\ cpc' = "tracker"
              /\ UNCHANGED << cerr, running >>
         ELSE /\ cpc' = "raised"
              /\ cerr' = "OSError"
              /\ running' = Idle
              /\ UNCHANGED dirMade
    /\ UNCHANGED << inputVars, trackerVars, sem, launched, tpc, fetches, err,
                    result, sinkVars, outOfOrder, results, returned >>

\* progress_tracker = AsyncDownloadProgress(len(links))
TrackerInit ==
    /\ cpc = "tracker" /\ running = Coord
    /\ trackerMade' = TRUE
    /\ total' = TrackerTotal(links)
    /\ completed' = 0
    /\ bar_n' = 0
    /\ lock' = Free
    /\ cpc' = "sem"
    /\ UNCHANGED << inputVars, running, cerr, dirMade, updatesFinished,
                    closeCalls, sem, launched, tpc, fetches, err, result,
                    sinkVars, outOfOrder, results, returned >>

\* sem = asyncio.Semaphore(max_concurrent): ValueError below zero
SemInit ==
    /\ cpc = "sem" /\ running = Coord
    /\ IF max_concurrent < 0
       THEN /\ cpc' = "raised"
            /\ cerr' = "ValueError"
            /\ running' = Idle
            /\ UNCHANGED sem
       ELSE /\ sem' = max_concurrent
            /\ cpc' = "gather"
            /\ UNCHANGED << cerr, running >>
    /\ UNCHANGED << inputVars, dirMade, trackerVars, launched, tpc, fetches,
                    err, result, sinkVars, outOfOrder, results, returned >>

\* async with ClientSession(): await asyncio.gather(*[...])
Gather ==
    /\ cpc = "gather" /\ running = Coord
    /\ launched' = GatherTasks(links)
    /\ tpc' = [i \in DOMAIN links |->
                 IF i \in GatherTasks(links) THEN "ready" ELSE "new"]
    /\ cpc' = "gather_wait"
    /\ running' = Idle
    /\ UNCHANGED << inputVars, cerr, dirMade, trackerVars, sem, fetches, err,
                    result, sinkVars, outOfOrder, results, returned >>

\* the gather future is done: its results, or the first exception of a child
GatherDone ==
    /\ cpc = "gather_wait" /\ running = Idle
    /\ GatherReady(launched, tpc, result)
    /\ IF \E i \in launched : tpc[i] = "done" /\ result[i] = Raised
       THEN /\ cpc' = "raised"
            /\ cerr' = "TaskFault"
            /\ UNCHANGED << running, results >>
       ELSE /\ results' = GatherResults(launched, result)
            /\ cpc' = "close"
            /\ running' = Coord
            /\ UNCHANGED cerr
    /\ UNCHANGED << inputVars, dirMade, trackerVars, sem, launched, tpc,
                    fetches, err, result, sinkVars, outOfOrder, returned >>

\* progress_tracker.close()
Close ==
    /\ cpc = "close" /\ running = Coord
    /\ closeCalls' = closeCalls + 1
    /\ cpc' = "return"
    /\ UNCHANGED << inputVars, running, cerr, dirMade, trackerMade, total,
                    completed, bar_n, lock, updatesFinished, sem, launched,
                    tpc, fetches, err, result, sinkVars, outOfOrder, results, returned >>

\* return [r for r in results if r is not None]
Return ==
    /\ cpc = "return" /\ running = Coord
    /\ returned' = SuccessfulDownloads(results)
    /\ cpc' = "returned"
    /\ running' = Idle
    /\ UNCHANGED << inputVars, cerr, dirMade, trackerVars, sem, launched, tpc,
                    fetches, err, result, sinkVars, outOfOrder, results >>

\* ---- bounded_download ----
\* the event loop runs a task created by gather for the first time; the
\* tasks were scheduled in the order of the links and start in that order
TaskStart(i) ==
    /\ tpc[i] = "ready" /\ running = Idle
    /\ \A j \in launched : j < i => tpc[j] # "ready"
    /\ running' = i
    /\ tpc' = [tpc EXCEPT ![i] = "sem_enter"]
    /\ UNCHANGED << inputVars, coordVars, trackerVars, sem, fetches, err,
                    result, sinkVars >>

\* async with sem: acquire at once when a permit is left, else suspend until
\* a permit is released
SemAcquire(i) ==
    /\ \/ tpc[i] = "sem_enter" /\ running = i
       \/ tpc[i] = "sem_wait" /\ running = Idle /\ ~SemLocked(sem)
    /\ IF SemLocked(sem)
       THEN /\ tpc' = [tpc EXCEPT ![i] = "sem_wait"]
            /\ running' = Idle
            /\ UNCHANGED sem
       ELSE /\ sem' = sem - 1
            /\ tpc' = [tpc EXCEPT ![i] = "get"]
            /\ running' = i
    /\ UNCHANGED << inputVars, coordVars, trackerVars, fetches, err, result,
                    sinkVars >>

\* leaving 'async with sem' releases the permit and ends the task
SemRelease(i) ==
    /\ tpc[i] = "sem_exit" /\ running = i
    /\ sem' = SemReleaseValue(sem, result[i])
    /\ tpc' = [tpc EXCEPT ![i] = "done"]
    /\ outOfOrder' = (outOfOrder \/ \E j \in launched : j < i /\ tpc[j] # "done")
    /\ running' = Idle
    /\ UNCHANGED << inputVars, cpc, cerr, dirMade, results, returned, launched,
                    trackerVars, fetches, err, result, sinkVars >>

\* ---- download_file ----
\* session.get(url) is sent; the task suspends on the network
GetStart(i) ==
    /\ tpc[i] = "get" /\ running = i
    /\ fetches' = [fetches EXCEPT ![i] = @ + 1]
    /\ tpc' = [tpc EXCEPT ![i] = "get_wait"]
    /\ running' = Idle
    /\ UNCHANGED << inputVars, coordVars, trackerVars, sem, err, result,
                    sinkVars >>

\* the response headers arrive, or the connection fails
GetDone(i) ==
    /\ tpc[i] = "get_wait" /\ running = Idle
    /\ running' = i
    /\ \E ok \in BOOLEAN :
         IF ok
         THEN /\ tpc' = [tpc EXCEPT ![i] = "status"]
              /\ UNCHANGED err
         ELSE /\ tpc' = [tpc EXCEPT ![i] = "handler"]
              /\ err' = [err EXCEPT ![i] = "ClientConnectionError"]
    /\ UNCHANGED << inputVars, coordVars, trackerVars, sem, fetches, result,
                    sinkVars >>

\* response.raise_for_status(); filename and filepath are derived
RaiseForStatus(i) ==
    /\ tpc[i] = "status" /\ running = i
    /\ \E ok \in BOOLEAN :
         IF ok
         THEN /\ tpc' = [tpc EXCEPT ![i] = "open"]
              /\ UNCHANGED err
         ELSE /\ tpc' = [tpc EXCEPT ![i] = "handler"]
              /\ err' = [err EXCEPT ![i] = "ClientResponseError"]
    /\ UNCHANGED << inputVars, coordVars, trackerVars, sem, fetches, result,
                    sinkVars, running >>

\* aiofiles.open(filepath, 'wb') is handed to the thread pool
OpenStart(i) ==
    /\ tpc[i] = "open" /\ running = i
    /\ tpc' = [tpc EXCEPT ![i] = "open_wait"]
    /\ running' = Idle
    /\ UNCHANGED << inputVars, coordVars, trackerVars, sem, fetches, err,
                    result, sinkVars >>

\* the file is created or truncated, or the open fails
OpenDone(i) ==
    /\ tpc[i] = "open_wait" /\ running = Idle
    /\ running' = i
    /\ \E ok \in BOOLEAN :
         IF ok
         THEN /\ touched' = touched \cup {Filename(links[i])}
              /\ opened' = opened \cup {i}
              /\ tpc' = [tpc EXCEPT ![i] = "read"]
              /\ UNCHANGED err
         ELSE /\ tpc' = [tpc EXCEPT ![i] = "handler"]
              /\ err' = [err EXCEPT ![i] = "OSError"]
              /\ UNCHANGED << touched, opened >>
    /\ UNCHANGED << inputVars, coordVars, trackerVars, sem, fetches, result,
                    wrote >>

\* await response.read(), evaluated while the file is open
ReadStart(i) ==
    /\ tpc[i] = "read" /\ running = i
    /\ tpc' = [tpc EXCEPT ![i] = "read_wait"]
    /\ running' = Idle
    /\ UNCHANGED << inputVars, coordVars, trackerVars, sem, fetches, err,
                    result, sinkVars >>

\* the body arrives, or reading it fails and the file is closed again
ReadDone(i) ==
    /\ tpc[i] = "read_wait" /\ running = Idle
    /\ running' = i
    /\ \E ok \in BOOLEAN :
         IF ok
         THEN /\ tpc' = [tpc EXCEPT ![i] = "write"]
              /\ UNCHANGED err
         ELSE /\ tpc' = [tpc EXCEPT ![i] = "close"]
              /\ err' = [err EXCEPT ![i] = "ClientPayloadError"]
    /\ UNCHANGED << inputVars, coordVars, trackerVars, sem, fetches, result,
                    sinkVars >>

\* await file.write(...) is handed to the thread pool
WriteStart(i) ==
    /\ tpc[i] = "write" /\ running = i
    /\ tpc' = [tpc EXCEPT ![i] = "write_wait"]
    /\ running' = Idle
    /\ UNCHANGED << inputVars, coordVars, trackerVars, sem, fetches, err,
                    result, sinkVars >>

\* the bytes are written, or the write fails
WriteDone(i) ==
    /\ tpc[i] = "write_wait" /\ running = Idle
    /\ running' = i
    /\ tpc' = [tpc EXCEPT ![i] = "close"]
    /\ \E ok \in BOOLEAN :
         IF ok
         THEN /\ wrote' = wrote \cup {i}
              /\ UNCHANGED err
         ELSE /\ err' = [err EXCEPT ![i] = "OSError"]
              /\ UNCHANGED wrote
    /\ UNCHANGED << inputVars, coordVars, trackerVars, sem, fetches, result,
                    touched, opened >>

\* leaving 'async with aiofiles.open': the close is handed to the thread pool
CloseStart(i) ==
    /\ tpc[i] = "close" /\ running = i
    /\ tpc' = [tpc EXCEPT ![i] = "close_wait"]
    /\ running' = Idle
    /\ UNCHANGED << inputVars, coordVars, trackerVars, sem, fetches, err,
                    result, sinkVars >>

\* the file is closed; a pending exception goes on to the handler
CloseDone(i) ==
    /\ tpc[i] = "close_wait" /\ running = Idle
    /\ running' = i
    /\ tpc' = [tpc EXCEPT ![i] =
                 IF err[i] = NoErr THEN "upd_lock" ELSE "handler"]
    /\ UNCHANGED << inputVars, coordVars, trackerVars, sem, fetches, err,
                    result, sinkVars >>

\* return filename
ReturnFilename(i) ==
    /\ tpc[i] = "ret" /\ running = i
    /\ result' = [result EXCEPT ![i] = Filename(links[i])]
    /\ tpc' = [tpc EXCEPT ![i] = "sem_exit"]
    /\ UNCHANGED << inputVars, coordVars, trackerVars, sem, fetches, err,
                    sinkVars, running >>

\* except Exception: print the error and return None; what the clause does
\* not catch leaves the task
Handler(i) ==
    /\ tpc[i] = "handler" /\ running = i
    /\ result' = [result EXCEPT ![i] =
                    IF Caught(err[i]) THEN None ELSE Raised]
    /\ tpc' = [tpc EXCEPT ![i] = "sem_exit"]
    /\ UNCHANGED << inputVars, coordVars, trackerVars, sem, fetches, err,
                    sinkVars, running >>

\* ---- AsyncDownloadProgress.update ----
\* async with self.lock: acquire at once when the lock is free, else suspend
\* until it is released
LockAcquire(i) ==
    /\ \/ tpc[i] = "upd_lock" /\ running = i
       \/ tpc[i] = "lock_wait" /\ running = Idle /\ lock = Free
    /\ IF lock = Free
       THEN /\ lock' = i
            /\ tpc' = [tpc EXCEPT ![i] = "upd_inc"]
            /\ running' = i
       ELSE /\ tpc' = [tpc EXCEPT ![i] = "lock_wait"]
            /\ running' = Idle
            /\ UNCHANGED lock
    /\ UNCHANGED << inputVars, coordVars, trackerMade, total, completed, bar_n,
                    updatesFinished, closeCalls, sem, fetches, err, result,
                    sinkVars >>

\* self.completed += 1; progress_bar.update(1); set_postfix_str
UpdateIncrement(i) ==
    /\ tpc[i] = "upd_inc" /\ running = i
    /\ completed' = TrackerIncrement(completed)
    /\ bar_n' = bar_n + 1
    /\ tpc' = [tpc EXCEPT ![i] = "upd_unlock"]
    /\ running' = UpdateKeepsLoop(i)
    /\ UNCHANGED << inputVars, coordVars, trackerMade, total, lock,
                    updatesFinished, closeCalls, sem, fetches, err, result,
                    sinkVars >>

\* leaving 'async with self.lock'; update returns
LockRelease(i) ==
    /\ tpc[i] = "upd_unlock" /\ running = i
    /\ lock' = Free
    /\ updatesFinished' = updatesFinished + 1
    /\ tpc' = [tpc EXCEPT ![i] = "ret"]
    /\ UNCHANGED << inputVars, coordVars, trackerMade, total, completed, bar_n,
                    closeCalls, sem, fetches, err, result, sinkVars, running >>

TaskStep(i) ==
    \/ TaskStart(i)
    \/ SemAcquire(i)
    \/ SemRelease(i)
    \/ GetStart(i)
    \/ GetDone(i)
    \/ RaiseForStatus(i)
    \/ OpenStart(i)
    \/ OpenDone(i)
    \/ ReadStart(i)
    \/ ReadDone(i)
    \/ WriteStart(i)
    \/ WriteDone(i)
    \/ CloseStart(i)
    \/ CloseDone(i)
    \/ LockAcquire(i)
    \/ UpdateIncrement(i)
    \/ LockRelease(i)
    \/ ReturnFilename(i)
    \/ Handler(i)

Next ==
    \/ Makedirs
    \/ TrackerInit
    \/ SemInit
    \/ Gather
    \/ GatherDone
    \/ Close
    \/ Return
    \/ \E i \in Tasks : TaskStep(i)

Spec == Init /\ [][Next]_vars

\* batches that repeat one link: which URL a task fetches has no influence
\* on what is scheduled
LiveLinkLists == { l \in LinkLists : \A i \in DOMAIN l : l[i] = l[1] }

LiveInit == Init /\ links \in LiveLinkLists

\* the event loop keeps running whatever is ready, and every fetch, file
\* operation and permit hand-over that is awaited eventually completes
LiveSpec == LiveInit /\ [][Next]_vars /\ WF_vars(Next)

\* ---- properties ----
Successes == { i \in Tasks : result[i] = Filename(links[i]) }
Failures == { i \in Tasks : result[i] = None }
FailedTasks == { i \in Tasks : err[i] # NoErr }
Returning == cpc \in {"close", "return", "returned"}

\* C1: for a cap of at least 1, the number of tasks inside download_file
\* never exceeds max_concurrent.
C1_InFlightWithinCap ==
    max_concurrent >= 1 => Cardinality(InFlight) <= max_concurrent

\* the cap is reached while a further task waits for a permit
C1_Witness ==
    /\ max_concurrent = 2
    /\ Cardinality(InFlight) = 2
    /\ \E i \in Tasks : tpc[i] = "sem_wait"

\* C2: one task per link is launched, no task calls session.get more than
\* once, and at return every task has fetched exactly once and has settled
\* with a file name or with None, successes and failures adding up to N.
C2_OneTaskOneAttemptOneResult ==
    /\ \A i \in Tasks : fetches[i] <= 1
    /\ cpc = "gather_wait" => Cardinality(launched) = Len(links)
    /\ Returning =>
         /\ Cardinality(launched) = Len(links)
         /\ Len(results) = Len(links)
         /\ \A i \in Tasks :
              /\ fetches[i] = 1
              /\ result[i] \in {None, Filename(links[i])}
         /\ Cardinality(Successes) + Cardinality(Failures) = Len(links)

\* a batch of three links has returned with successes and failures
C2_Witness ==
    /\ cpc = "returned"
    /\ Len(links) = 3
    /\ Successes # {}
    /\ Failures # {}

\* C3: whatever tasks fail, no task fault leaves download_files, and at
\* return every task has its own result and the list returned has as many
\* entries as there are tasks that did not fail.
C3_FailuresIsolated ==
    /\ cerr # "TaskFault"
    /\ \A i \in Tasks : result[i] # Raised
    /\ cpc = "returned" =>
         /\ \A i \in Tasks : tpc[i] = "done" /\ result[i] # Pending
         /\ \A i \in Tasks \ FailedTasks : result[i] = Filename(links[i])
         /\ Len(returned) = Len(links) - Cardinality(FailedTasks)

\* a batch has returned in which a fetch and a write failed and a task succeeded
C3_Witness ==
    /\ cpc = "returned"
    /\ \E i \in Tasks : err[i] = "OSError"
    /\ \E i \in Tasks : err[i] \in {"ClientConnectionError", "ClientResponseError"}
    /\ \E i \in Tasks : err[i] = NoErr

\* C4: when download_files returns, the completed count of the tracker
\* equals the number of links, failed tasks included.
C4_CompletedCountsFailures ==
    cpc = "returned" => completed = Len(links)

\* C5: download_files closes the tracker and returns only when no task is
\* still to run, waiting for the semaphore, fetching, writing or updating.
C5_ReturnAfterAllSettled ==
    (Returning \/ closeCalls > 0) => \A i \in Tasks : tpc[i] = "done"

\* three tasks under a cap of one have all settled and the call has returned
C5_Witness ==
    /\ cpc = "returned"
    /\ Len(links) = 3
    /\ max_concurrent = 1
    /\ closeCalls = 1

\* C6: with a cap below 1 and a non-empty link list no download task is
\* launched.
C6_NoTaskBelowCapOne ==
    (max_concurrent < 1 /\ Len(links) > 0) => launched = {}

\* C7: when no fetch and no write has failed, the list returned has N
\* entries and the completed count is N.
C7_AllSucceed ==
    (cpc = "returned" /\ FailedTasks = {}) =>
        /\ Len(returned) = Len(links)
        /\ completed = Len(links)

\* three downloads under a cap of two have all succeeded
C7_Witness ==
    /\ cpc = "returned"
    /\ FailedTasks = {}
    /\ Len(links) = 3
    /\ max_concurrent = 2

\* C8: with max_concurrent = 1 no two tasks are inside download_file at the
\* same time.
C8_CapOneIsSerial ==
    max_concurrent = 1 =>
        \A i, j \in Tasks :
            (tpc[i] \in InDownloadFile /\ tpc[j] \in InDownloadFile) => i = j

\* under a cap of one a task is suspended in its fetch while another waits
C8_Witness ==
    /\ max_concurrent = 1
    /\ \E i \in Tasks : tpc[i] = "get_wait"
    /\ \E j \in Tasks : tpc[j] = "sem_wait"

\* C9: once the tracker exists its total is len(links) and never changes,
\* the completed count lies between 0 and the total, and no step lowers it.
C9_CompletedBoundedMonotone ==
    /\ [](trackerMade => (total = Len(links) /\ completed \in 0..total))
    /\ [][(trackerMade => total' = total) /\ completed' >= completed]_vars

\* the completed count has reached a total of three
C9_Witness ==
    /\ trackerMade
    /\ total = 3
    /\ completed = total

\* C10: the completed count equals the number of update calls that have
\* finished, plus the call that has incremented and not yet released the lock.
C10_OneIncrementPerUpdate ==
    completed = updatesFinished
                  + Cardinality({ i \in Tasks : tpc[i] = "upd_unlock" })

\* a second update is past its increment while another task is mid-download
C10_Witness ==
    /\ updatesFinished >= 1
    /\ \E i \in Tasks : tpc[i] = "upd_unlock"
    /\ \E j \in Tasks : tpc[j] \in {"write_wait", "close_wait"}

\* positions of a task that has its file open for writing
HasFileOpen == {"read", "read_wait", "write", "write_wait", "close",
                "close_wait"}

\* the semaphore has been created
SemMade == cpc \in {"gather", "gather_wait", "close", "return", "returned"}

FetchErrors == {"ClientConnectionError", "ClientResponseError",
                "ClientPayloadError"}

Count(seq, x) == Cardinality({ k \in DOMAIN seq : seq[k] = x })

\* the file names of the links that did not fail, in the order of the links
RECURSIVE SuccessfulInOrder(_, _)
SuccessfulInOrder(ls, e) ==
    IF Len(ls) = 0 THEN << >>
    ELSE IF e[1] = NoErr
         THEN << Filename(ls[1]) >> \o SuccessfulInOrder(Tail(ls), Tail(e))
         ELSE SuccessfulInOrder(Tail(ls), Tail(e))

\* C11: close() is never called twice, it is called only when all tasks are
\* done, a call that has returned has closed the tracker exactly once, and
\* no update changes the tracker after close.
C11_CloseOnceAfterAll ==
    /\ [](closeCalls <= 1)
    /\ [](closeCalls = 1 => \A i \in Tasks : tpc[i] = "done")
    /\ [](cpc \in {"return", "returned"} => closeCalls = 1)
    /\ [][closeCalls >= 1 =>
            /\ completed' = completed
            /\ bar_n' = bar_n
            /\ updatesFinished' = updatesFinished
            /\ lock' = lock]_vars

\* the tracker is closed after three tasks, some of which updated it
C11_Witness ==
    /\ closeCalls = 1
    /\ Len(links) = 3
    /\ updatesFinished >= 2

\* C12: for an empty link list no task is launched, nothing is fetched or
\* written, the completed count stays 0, gather does not wait, and the list
\* returned is empty.
C12_EmptyBatch ==
    Len(links) = 0 =>
        /\ launched = {}
        /\ touched = {} /\ wrote = {} /\ opened = {}
        /\ completed = 0 /\ updatesFinished = 0
        /\ cpc = "gather_wait" => GatherReady(launched, tpc, result)
        /\ Returning => results = << >>
        /\ cpc = "returned" => returned = << >>

\* the call with no link has returned, the output directory being made
C12_Witness ==
    /\ Len(links) = 0
    /\ cpc = "returned"
    /\ dirMade
    /\ closeCalls = 1

\* C13: every occurrence of a URL gets its own task; at return each
\* occurrence has been fetched once, each successful one has written, and
\* the list returned holds the file name of a URL once per successful
\* occurrence, the completed count being the number of successful tasks.
C13_DuplicatesSeparate ==
    /\ cpc = "gather_wait" => launched = Tasks
    /\ cpc = "returned" =>
         /\ launched = Tasks
         /\ \A i \in Tasks : fetches[i] = 1
         /\ Tasks \ FailedTasks \subseteq wrote
         /\ completed = Cardinality(Tasks \ FailedTasks)
         /\ \A u \in URLs :
              Count(returned, Filename(u)) =
                Cardinality({ i \in Tasks \ FailedTasks : links[i] = u })

\* the same URL given three times has been downloaded three times
C13_Witness ==
    /\ cpc = "returned"
    /\ Len(links) = 3
    /\ links[1] = links[2] /\ links[2] = links[3]
    /\ FailedTasks = {}
    /\ Len(returned) = 3

\* C14: no two tasks have the same file path open for writing at the same
\* time.
C14_DistinctOpenPaths ==
    \A i, j \in Tasks :
        (i # j /\ tpc[i] \in HasFileOpen /\ tpc[j] \in HasFileOpen)
            => Filename(links[i]) # Filename(links[j])

\* C15: a task whose fetch fails (connection, status or body) has not
\* opened its file in the output directory.
C15_NoFileWithoutFetch ==
    \A i \in Tasks : err[i] \in FetchErrors => i \notin opened

\* C16: a task is in update or past it only after its write has completed,
\* so the completed count is at most the number of completed writes, and a
\* task has returned its file name only after its update has finished.
C16_FetchWriteRecordOrder ==
    /\ \A i \in Tasks :
         tpc[i] \in {"upd_lock", "lock_wait", "upd_inc", "upd_unlock", "ret"}
             => (i \in wrote /\ i \in opened /\ fetches[i] = 1)
    /\ \A i \in Successes : i \in wrote
    /\ completed <= Cardinality(wrote)
    /\ Cardinality(Successes) <= updatesFinished

\* a task has recorded its completion and returned while another is writing
C16_Witness ==
    /\ \E i \in Tasks : tpc[i] = "done" /\ i \in Successes
    /\ \E j \in Tasks : tpc[j] = "write_wait"
    /\ completed >= 1

\* C17: the task that holds the tracker lock owns the event loop until it
\* releases it, and no task is ever suspended waiting for the lock.
C17_LockNeverContended ==
    /\ lock # Free => running = lock
    /\ \A i \in Tasks : tpc[i] # "lock_wait"

\* a task holds the lock while another task is suspended in its download
C17_Witness ==
    /\ lock # Free
    /\ \E j \in Tasks : j # lock /\ tpc[j] \in {"close_wait", "write_wait"}

\* C19: once the semaphore exists, the free permits and the tasks inside
\* 'async with sem' add up to max_concurrent, and all permits are free when
\* download_files returns.
C19_PermitsConserved ==
    /\ SemMade =>
         sem + Cardinality({ i \in Tasks : tpc[i] \in InSemBlock })
           = max_concurrent
    /\ cpc = "returned" => sem = max_concurrent

\* the call has returned after a task failed and a task succeeded
C19_Witness ==
    /\ cpc = "returned"
    /\ max_concurrent = 2
    /\ Failures # {}
    /\ Successes # {}

\* C20: the list returned is the file names of the links that did not fail,
\* in the order of the links, whatever the order of completion.
C20_OutcomeInLinkOrder ==
    cpc = "returned" => returned = SuccessfulInOrder(links, err)

\* tasks finished out of link order and the list returned has both names
C20_Witness ==
    /\ cpc = "returned"
    /\ outOfOrder
    /\ Len(returned) >= 2
    /\ returned[1] # returned[2]

Unfinished == { i \in launched : tpc[i] # "done" }

\* a task that is suspended and cannot be resumed in this state
Blocked(i) ==
    \/ tpc[i] = "sem_wait" /\ SemLocked(sem)
    \/ tpc[i] = "lock_wait" /\ lock # Free

\* C18: for a cap of at least 1, under a fair event loop, download_files
\* eventually returns once it has launched its tasks, every task having
\* been admitted by the semaphore (it has fetched) and having settled; in
\* no state are all unfinished tasks blocked, and the lock is only held
\* inside the semaphore.
C18_LivenessNoDeadlock ==
    /\ []((max_concurrent >= 1 /\ Unfinished # {})
            => \E i \in Unfinished : ~Blocked(i))
    /\ [](lock # Free => tpc[lock] \in InSemBlock)
    /\ (max_concurrent >= 1 /\ cpc = "gather_wait")
         ~> /\ cpc = "returned"
            /\ \A i \in Tasks : tpc[i] = "done" /\ fetches[i] = 1

\* two tasks wait for the single permit while the third is in its fetch
C18_Witness ==
    /\ max_concurrent = 1
    /\ Len(links) = 3
    /\ Cardinality({ i \in Tasks : tpc[i] = "sem_wait" }) = 2
    /\ \E j \in Tasks : tpc[j] = "get_wait"

====
